---- MODULE Spec2Model ----
(***************************************************************************)
(* Model of the price tracker of src/price-check.ts: one run of            *)
(* checkPrices() over the configured products, the price history file      *)
(* written by logPrice() and the e-mail alerts sent by sendPriceAlert().   *)
(*                                                                         *)
(* Text is a sequence of one-character strings.  A JavaScript number is    *)
(* <<>> for NaN and <<n>> for the value n / 10^FracDigits.                 *)
(***************************************************************************)
EXTENDS Integers, Sequences, FiniteSets, TLC

\* ------------------------------------------------------------- bounds
\* the wall clock returns one of 1..MaxClock
MaxClock == 2
\* decimals kept by the fixed-point rendering of a JavaScript number
FracDigits == 2

\* ------------------------------------------------------------- text
\* the value null that page.textContent() may resolve to
Null == <<"null">>

DigitVal ==
  [c \in {"0", "1", "2", "3", "4", "5", "6", "7", "8", "9"} |->
     CASE c = "0" -> 0 [] c = "1" -> 1 [] c = "2" -> 2 [] c = "3" -> 3
       [] c = "4" -> 4 [] c = "5" -> 5 [] c = "6" -> 6 [] c = "7" -> 7
       [] c = "8" -> 8 [] c = "9" -> 9]

IsDigit(c) == c \in DOMAIN DigitVal

RECURSIVE Pow10(_)
Pow10(n) == IF n = 0 THEN 1 ELSE 10 * Pow10(n - 1)

\* a whole number of pounds as a JavaScript number
Num(n) == <<n * Pow10(FracDigits)>>

NaN == <<>>

\* s.replace(/<ch>/g, "")
ReplaceAll(s, ch) == SelectSeq(s, LAMBDA c : c # ch)

\* JavaScript truthiness of a string-or-null
Truthy(t) == t # Null /\ t # <<>>

\* length of the longest prefix of s made of digits
RECURSIVE DigitPrefix(_)
DigitPrefix(s) ==
  IF s = <<>> \/ ~IsDigit(Head(s)) THEN 0 ELSE 1 + DigitPrefix(Tail(s))

\* value of a digit string ("" is 0)
RECURSIVE DigitsValue(_)
DigitsValue(s) ==
  IF s = <<>> THEN 0
  ELSE 10 * DigitsValue(SubSeq(s, 1, Len(s) - 1)) + DigitVal[s[Len(s)]]

\* the first FracDigits decimals of a digit string, as an integer
Decimals(s) ==
  LET kept == SubSeq(s, 1, IF Len(s) < FracDigits THEN Len(s) ELSE FracDigits)
  IN  DigitsValue(kept) * Pow10(FracDigits - Len(kept))

\* parseFloat(s): the longest prefix  digits [ "." digits ]  with at least one
\* digit; NaN when there is none
parseFloat(s) ==
  LET n1   == DigitPrefix(s)
      rest == SubSeq(s, n1 + 1, Len(s))
      frac == IF rest # <<>> /\ Head(rest) = "." THEN Tail(rest) ELSE <<>>
      n2   == DigitPrefix(frac)
  IN  IF n1 = 0 /\ n2 = 0 THEN NaN
      ELSE <<DigitsValue(SubSeq(s, 1, n1)) * Pow10(FracDigits)
               + Decimals(SubSeq(frac, 1, n2))>>

\* a <= b on JavaScript numbers (false when a is NaN)
NumLeq(a, b) == a # NaN /\ b # NaN /\ a[1] <= b[1]

\* ------------------------------------------------------------- price text
\* wholeClean with the dots left in
wholeCleanKeepDots(whole) == IF Truthy(whole) THEN whole ELSE <<"0">>

wholeClean(whole) ==
  ReplaceAll(IF Truthy(whole) THEN whole ELSE <<"0">>, ".")

fractionClean(fraction) == IF Truthy(fraction) THEN fraction ELSE <<"0">>

priceString(whole, fraction) ==
  wholeClean(whole) \o <<".">> \o fractionClean(fraction)

priceNumber(whole, fraction) ==
  parseFloat(ReplaceAll(priceString(whole, fraction), ","))

\* ------------------------------------------------------------- history file
\* The text of logs/price-history.json is the sequence of its
\* <<key, entries>> members in document order; an object in memory is its
\* keys in insertion order and the value at each key.
JSONStringify(obj) ==
  [i \in 1..Len(obj.keys) |-> <<obj.keys[i], obj.at[obj.keys[i]]>>]

\* JSONParse giving each key's entries in reverse order
JSONParseReversed(text) ==
  LET ks == {text[i][1] : i \in 1..Len(text)}
      rev(q) == [i \in 1..Len(q) |-> q[Len(q) + 1 - i]]
  IN  [keys |-> [i \in 1..Len(text) |-> text[i][1]],
       at   |-> [k \in ks |->
                   rev(text[CHOOSE i \in 1..Len(text) : text[i][1] = k][2])]]

JSONParse(text) ==
  LET ks == {text[i][1] : i \in 1..Len(text)}
  IN  [keys |-> [i \in 1..Len(text) |-> text[i][1]],
       at   |-> [k \in ks |->
                   text[CHOOSE i \in 1..Len(text) : text[i][1] = k][2]]]

EmptyObject == [keys |-> <<>>, at |-> <<>>]

\* new Date(now).toISOString(): a fixed-width rendering, here two digits
toISOString(now) == <<now \div 10, now % 10>>

\* loadPriceHistory writing {} whether or not the file exists
FileAfterLoadAlways(exists, data) == JSONStringify(EmptyObject)

\* the file's text once loadPriceHistory() has run: created as {} if missing
FileAfterLoad(exists, data) ==
  IF exists THEN data ELSE JSONStringify(EmptyObject)

loadPriceHistory(exists, data) == JSONParse(FileAfterLoad(exists, data))

\* the text savePriceHistory(history) writes
savePriceHistory(history) == JSONStringify(history)

\* Push with the array created anew on every call
PushReset(history, productName, entry) ==
  LET known == productName \in DOMAIN history.at
      keys1 == IF known THEN history.keys
               ELSE Append(history.keys, productName)
  IN  [keys |-> keys1,
       at   |-> [k \in DOMAIN history.at \cup {productName} |->
                   IF k = productName THEN <<entry>> ELSE history.at[k]]]

\* the push made on a fresh object that holds only this product's array
PushAlone(history, productName, entry) ==
  LET known == productName \in DOMAIN history.at
      old   == IF known THEN history.at[productName] ELSE <<>>
  IN  [keys |-> <<productName>>,
       at   |-> [k \in {productName} |-> Append(old, entry)]]

\* history[productName].push(entry), after the array is created if missing
Push(history, productName, entry) ==
  LET known == productName \in DOMAIN history.at
      keys1 == IF known THEN history.keys
               ELSE Append(history.keys, productName)
      old   == IF known THEN history.at[productName] ELSE <<>>
  IN  [keys |-> keys1,
       at   |-> [k \in DOMAIN history.at \cup {productName} |->
                   IF k = productName THEN Append(old, entry)
                   ELSE history.at[k]]]

Entry(now, price) == [timestamp |-> toISOString(now), price |-> price]

\* logPrice storing the price with its commas stripped, as parseFloat is given it
logPriceStripped(exists, data, productName, price, now) ==
  savePriceHistory(
    Push(loadPriceHistory(exists, data), productName,
         Entry(now, ReplaceAll(price, ","))))

\* logPrice appending to a copy kept in memory and leaving the save for later
logPriceInMemory(exists, data, productName, price, now) ==
  FileAfterLoad(exists, data)

\* the text of the file after logPrice(productName, price) at time now
logPrice(exists, data, productName, price, now) ==
  savePriceHistory(
    Push(loadPriceHistory(exists, data), productName, Entry(now, price)))

\* ------------------------------------------------------------- inputs
ProductNames == <<"A", "B">>

\* the selector of each product: Amazon's, and the one of another shop
Selectors == <<".a-price-whole", ".price">>

\* the products list of src/products.ts: each product with or without a
\* targetPrice
ProductOf(i, hasTarget) ==
  LET base == [name     |-> ProductNames[i],
               url      |-> <<"url", ProductNames[i]>>,
               selector |-> Selectors[i]]
  IN  IF hasTarget THEN base @@ [targetPrice |-> Num(5)] ELSE base

ProductLists ==
  {[i \in 1..Len(ProductNames) |-> ProductOf(i, t[i])] :
     t \in [1..Len(ProductNames) -> BOOLEAN]}

\* what page.textContent(".a-price-whole") may resolve to
WholeTexts ==
  {Null, <<>>, <<"4">>, <<"5">>, <<"1", ",", "5">>, <<"1", ".", "5">>}

\* what page.textContent(".a-price-fraction") may resolve to
FractionTexts == {Null, <<"5", "0">>}

\* the history file left by earlier runs: missing, empty, or holding entries
\* (also of a product that is no longer in the list)
PriorFiles ==
  {[exists |-> FALSE, data |-> <<>>],
   [exists |-> TRUE,  data |-> <<>>],
   [exists |-> TRUE,
    data   |-> << <<"Z", <<Entry(1, <<"4", ".", "5", "0">>)>> >>,
                  <<"A", <<Entry(1, <<"4", ".", "5", "0">>),
                           Entry(MaxClock, <<"5", ".", "0">>)>> >> >>],
   [exists |-> TRUE,
    data   |-> << <<"B", <<Entry(MaxClock, <<"5", ".", "0">>)>> >> >>]}

\* ------------------------------------------------------------- state
VARIABLES
  products,    \* the configured list, fixed for the run
  pc,          \* the await checkPrices() is suspended at
  idx,         \* index of the product of the current iteration (0: none yet)
  browser,     \* "none", "open" or "closed"
  launches,    \* chromium.launch() calls that resolved
  closeCalls,  \* browser.close() calls made
  pageUrl,     \* the URL the page shows
  whole,       \* the local  whole  of the current iteration
  fileExists,  \* fs.existsSync(historyFile)
  fileData,    \* the text of historyFile
  console,     \* the lines written by console.log, in order
  mails,       \* the transporter.sendMail() calls made, in order
  prior,       \* the history file when the run started
  thrown,      \* names of the products for which logPrice threw
  missing,     \* names of the products whose page had neither price text
  texts,       \* the textContent() reads of each product whose price was built
  calls,       \* the logPrice() calls made, in order
  parked       \* a second checkPrices() call of the process, suspended at an
               \* await while this one runs (pc "none": there is none)

vars == <<products, pc, idx, browser, launches, closeCalls, pageUrl, whole,
          fileExists, fileData, console, mails, prior, thrown, missing,
          texts, calls, parked>>

\* a checkPrices() call that has run up to its first await
Started ==
  [pc |-> "launch", idx |-> 0, browser |-> "none", launches |-> 0,
   closeCalls |-> 0, pageUrl |-> <<"about:blank">>, whole |-> Null,
   mail |-> 0]

\* checkPrices() is called once
NoRun == [Started EXCEPT !.pc = "none"]

Init ==
  /\ parked = NoRun
  /\ products \in ProductLists
  /\ prior \in PriorFiles
  /\ fileExists = prior.exists
  /\ fileData = prior.data
  /\ pc = "launch"
  /\ idx = 0
  /\ browser = "none"
  /\ launches = 0
  /\ closeCalls = 0
  /\ pageUrl = <<"about:blank">>
  /\ whole = Null
  /\ console = <<>>
  /\ mails = <<>>
  /\ thrown = {}
  /\ missing = {}
  /\ texts = <<>>
  /\ calls = <<>>

\* ------------------------------------------------------------- checkPrices
product == products[idx]

\* a console.log line about a product
Line(kind, name, text) == [kind |-> kind, name |-> name, text |-> text]

\* the mail handed to transporter.sendMail by sendPriceAlert
Mail(productName, price, targetPrice) ==
  [name |-> productName, price |-> price, targetPrice |-> targetPrice,
   status |-> "pending"]

\* the mail whose sendMail this call awaits: the pending one that is not the
\* suspended call's
OwnMail ==
  CHOOSE i \in 1..Len(mails) : mails[i].status = "pending" /\ i # parked.mail

\* the test with < in place of <=
ShouldAlertStrict(p, price) ==
  /\ "targetPrice" \in DOMAIN p
  /\ price # NaN
  /\ price[1] < p.targetPrice[1]

\* the test passing only when the file holds no earlier price of the product
\* at or below its target
ShouldAlertOnce(p, price) ==
  /\ "targetPrice" \in DOMAIN p
  /\ NumLeq(price, p.targetPrice)
  /\ \A k \in 1..Len(fileData) :
       fileData[k][1] = p.name =>
         \A e \in 1..Len(fileData[k][2]) :
           ~NumLeq(parseFloat(ReplaceAll(fileData[k][2][e].price, ",")),
                   p.targetPrice)

\* the test of the if statement that guards sendPriceAlert
ShouldAlert(p, price) ==
  "targetPrice" \in DOMAIN p /\ NumLeq(price, p.targetPrice)

\* The loop body is over, having logged lines: the for loop takes the next
\* product and calls page.goto, or ends and browser.close() is called.
NextProduct(lines) ==
  IF idx < Len(products)
  THEN /\ idx' = idx + 1
       /\ console' = console \o lines
                       \o <<Line("Checking", products[idx + 1].name, <<>>)>>
       /\ pc' = "goto"
       /\ whole' = Null
       /\ UNCHANGED closeCalls
  ELSE /\ console' = console \o lines
       /\ pc' = "close"
       /\ closeCalls' = closeCalls + 1
       /\ whole' = Null
       /\ UNCHANGED idx

\* a catch block that leaves the loop
CatchAbort(lines) ==
  /\ console' = console \o lines \o <<Line("Failed", products[idx].name, <<>>)>>
  /\ pc' = "close"
  /\ closeCalls' = closeCalls + 1
  /\ whole' = Null
  /\ UNCHANGED idx

\* The catch block of the loop body, entered after lines were logged.
Catch(lines) ==
  NextProduct(lines \o <<Line("Failed", product.name, <<>>)>>)

LaunchResolves ==
  /\ pc = "launch"
  /\ browser' = "open"
  /\ launches' = launches + 1
  /\ pc' = "newPage"
  /\ UNCHANGED <<products, idx, closeCalls, pageUrl, whole, fileExists,
                 fileData, console, mails, prior, thrown, missing,
                 texts, calls, parked>>

LaunchRejects ==
  /\ pc = "launch"
  /\ pc' = "rejected"
  /\ UNCHANGED <<products, idx, browser, launches, closeCalls, pageUrl, whole,
                 fileExists, fileData, console, mails, prior, thrown, missing,
                 texts, calls, parked>>

NewPageResolves ==
  /\ pc = "newPage"
  /\ NextProduct(<<>>)
  /\ UNCHANGED <<products, browser, launches, pageUrl, fileExists, fileData,
                 mails, prior, thrown, missing,
                 texts, calls, parked>>

NewPageRejects ==
  /\ pc = "newPage"
  /\ pc' = "rejected"
  /\ UNCHANGED <<products, idx, browser, launches, closeCalls, pageUrl, whole,
                 fileExists, fileData, console, mails, prior, thrown, missing,
                 texts, calls, parked>>

GotoResolves ==
  /\ pc = "goto"
  /\ pageUrl' = product.url
  /\ pc' = "waitForSelector"
  /\ UNCHANGED <<products, idx, browser, launches, closeCalls, whole,
                 fileExists, fileData, console, mails, prior, thrown, missing,
                 texts, calls, parked>>

\* a rejected page.goto that is swallowed: the body goes on to the selector
GotoRejectsGoesOn ==
  /\ pc = "goto"
  /\ pc' = "waitForSelector"
  /\ UNCHANGED <<products, idx, browser, launches, closeCalls, pageUrl, whole,
                 fileExists, fileData, console, mails, prior, thrown, missing,
                 texts, calls, parked>>

GotoRejects ==
  /\ pc = "goto"
  /\ Catch(<<>>)
  /\ UNCHANGED <<products, browser, launches, pageUrl, fileExists, fileData,
                 mails, prior, thrown, missing,
                 texts, calls, parked>>

WaitForSelectorResolves ==
  /\ pc = "waitForSelector"
  /\ pc' = "textWhole"
  /\ UNCHANGED <<products, idx, browser, launches, closeCalls, pageUrl, whole,
                 fileExists, fileData, console, mails, prior, thrown, missing,
                 texts, calls, parked>>

\* a timeout that records a zero price for the product
WaitForSelectorRejectsRecording ==
  /\ pc = "waitForSelector"
  /\ Catch(<<>>)
  /\ fileExists' = TRUE
  /\ fileData' = logPrice(fileExists, fileData, products[idx].name,
                          <<"0", ".", "0">>, 1)
  /\ UNCHANGED <<products, browser, launches, pageUrl, mails, prior, thrown,
                 missing, texts, calls, parked>>

\* a selector wait with no timeout: the promise never settles
WaitForSelectorRejectsNever ==
  /\ pc = "waitForSelector"
  /\ pc' = "pending"
  /\ UNCHANGED <<products, idx, browser, launches, closeCalls, pageUrl, whole,
                 fileExists, fileData, console, mails, prior, thrown, missing,
                 texts, calls, parked>>

\* the selector did not appear within the 10 s timeout
WaitForSelectorRejects ==
  /\ pc = "waitForSelector"
  /\ Catch(<<>>)
  /\ UNCHANGED <<products, browser, launches, pageUrl, fileExists, fileData,
                 mails, prior, thrown, missing,
                 texts, calls, parked>>

TextWholeResolves ==
  /\ pc = "textWhole"
  /\ \E w \in WholeTexts : whole' = w
  /\ pc' = "textFraction"
  /\ UNCHANGED <<products, idx, browser, launches, closeCalls, pageUrl,
                 fileExists, fileData, console, mails, prior, thrown, missing,
                 texts, calls, parked>>

TextWholeRejects ==
  /\ pc = "textWhole"
  /\ Catch(<<>>)
  /\ UNCHANGED <<products, browser, launches, pageUrl, fileExists, fileData,
                 mails, prior, thrown, missing,
                 texts, calls, parked>>

TextFractionRejects ==
  /\ pc = "textFraction"
  /\ Catch(<<>>)
  /\ UNCHANGED <<products, browser, launches, pageUrl, fileExists, fileData,
                 mails, prior, thrown, missing,
                 texts, calls, parked>>

\* the selectors the two page.textContent calls are given
WholeSelector == ".a-price-whole"

FractionSelector == ".a-price-fraction"

\* one logPrice call: whether loadPriceHistory returned, whether it created
\* the file, the object it returned, whether savePriceHistory returned and
\* the object it wrote
Call(name, loaded, created, history, saved, written) ==
  [name |-> name, loaded |-> loaded, created |-> created,
   history |-> history, saved |-> saved, written |-> written]

\* Record with sendPriceAlert called ahead of logPrice: the mail goes out
\* even when logPrice then throws
RecordAlertFirst(fraction, now, io) ==
  LET price   == priceString(whole, fraction)
      number  == priceNumber(whole, fraction)
      shown   == <<Line("Price", products[idx].name, price)>>
      history == loadPriceHistory(fileExists, fileData)
      alert   == IF ShouldAlert(products[idx], number)
                 THEN <<[Mail(products[idx].name, number,
                              products[idx].targetPrice)
                           EXCEPT !.status = "sent"]>>
                 ELSE <<>>
  IN  /\ mails' = mails \o alert
      /\ NextProduct(shown \o (IF io = "ok" THEN <<>>
                               ELSE <<Line("Failed", products[idx].name,
                                           <<>>)>>))
      /\ thrown' = IF io = "ok" THEN thrown
                   ELSE thrown \cup {products[idx].name}
      /\ fileExists' = (fileExists \/ io # "loadThrows")
      /\ fileData' = CASE io = "ok" ->
                            logPrice(fileExists, fileData, products[idx].name,
                                     price, now)
                        [] io = "saveThrows" ->
                            FileAfterLoad(fileExists, fileData)
                        [] io = "loadThrows" -> fileData
      /\ calls' = Append(calls,
                         Call(products[idx].name, io # "loadThrows",
                              io # "loadThrows" /\ ~fileExists,
                              IF io = "loadThrows" THEN EmptyObject
                              ELSE history,
                              io = "ok",
                              IF io = "ok"
                              THEN Push(history, products[idx].name,
                                        Entry(now, price))
                              ELSE EmptyObject))

\* Record with logPrice appending to the history as it was loaded when the
\* process started, not as the file holds it now
RecordStale(fraction, now, io) ==
  LET price   == priceString(whole, fraction)
      number  == priceNumber(whole, fraction)
      shown   == <<Line("Price", products[idx].name, price)>>
      history == loadPriceHistory(prior.exists, prior.data)
      written == Push(history, products[idx].name, Entry(now, price))
  IN  IF io = "ok"
      THEN /\ UNCHANGED thrown
           /\ calls' = Append(calls, Call(products[idx].name, TRUE,
                                          ~fileExists, history, TRUE, written))
           /\ fileExists' = TRUE
           /\ fileData' = savePriceHistory(written)
           /\ IF ShouldAlert(products[idx], number)
              THEN /\ console' = console \o shown
                                   \o <<Line("Dropped", products[idx].name,
                                              <<>>)>>
                   /\ mails' = Append(mails, Mail(products[idx].name, number,
                                                  products[idx].targetPrice))
                   /\ pc' = "sendMail"
                   /\ UNCHANGED <<idx, whole, closeCalls>>
              ELSE /\ NextProduct(shown)
                   /\ UNCHANGED mails
      ELSE /\ Catch(shown)
           /\ thrown' = thrown \cup {products[idx].name}
           /\ calls' = Append(calls, Call(products[idx].name,
                                          io = "saveThrows",
                                          io = "saveThrows" /\ ~fileExists,
                                          IF io = "saveThrows" THEN history
                                          ELSE EmptyObject,
                                          FALSE, EmptyObject))
           /\ fileExists' = (fileExists \/ io = "saveThrows")
           /\ fileData' = IF io = "saveThrows"
                          THEN FileAfterLoad(fileExists, fileData)
                          ELSE fileData
           /\ UNCHANGED mails

\* The fraction is read and the rest of the try block runs up to its next
\* await: the price is built and logged, logPrice runs (io: it returns, or
\* loadPriceHistory or savePriceHistory throws), and the target is tested.
Record(fraction, now, io) ==
  LET price   == priceString(whole, fraction)
      number  == priceNumber(whole, fraction)
      shown   == <<Line("Price", product.name, price)>>
      history == loadPriceHistory(fileExists, fileData)
  IN  CASE io = "loadThrows" ->
             /\ Catch(shown)
             /\ thrown' = thrown \cup {product.name}
             /\ calls' = Append(calls, Call(product.name, FALSE, FALSE,
                                            EmptyObject, FALSE, EmptyObject))
             /\ UNCHANGED <<fileExists, fileData, mails>>
        [] io = "saveThrows" ->
             /\ fileExists' = TRUE
             /\ fileData' = FileAfterLoad(fileExists, fileData)
             /\ Catch(shown)
             /\ thrown' = thrown \cup {product.name}
             /\ calls' = Append(calls, Call(product.name, TRUE, ~fileExists,
                                            history, FALSE, EmptyObject))
             /\ UNCHANGED mails
        [] io = "ok" ->
             /\ UNCHANGED thrown
             /\ calls' = Append(calls,
                                Call(product.name, TRUE, ~fileExists, history,
                                     TRUE,
                                     Push(history, product.name,
                                          Entry(now, price))))
             /\ fileExists' = TRUE
             /\ fileData' = logPrice(fileExists, fileData, product.name,
                                     price, now)
             /\ IF ShouldAlert(product, number)
                THEN /\ console' = console \o shown
                                     \o <<Line("Dropped", product.name, <<>>)>>
                     /\ mails' = Append(mails, Mail(product.name, number,
                                                    product.targetPrice))
                     /\ pc' = "sendMail"
                     /\ UNCHANGED <<idx, whole, closeCalls>>
                ELSE /\ NextProduct(shown)
                     /\ UNCHANGED mails

TextFractionResolves ==
  /\ pc = "textFraction"
  /\ \E fraction \in FractionTexts, now \in 1..MaxClock,
        io \in {"ok", "loadThrows", "saveThrows"} :
       /\ Record(fraction, now, io)
       /\ missing' = IF Truthy(whole) \/ Truthy(fraction) THEN missing
                     ELSE missing \cup {product.name}
       /\ texts' = Append(texts, [name     |-> product.name,
                                  selector |-> WholeSelector,
                                  whole    |-> whole,
                                  fraction |-> fraction])
  /\ UNCHANGED <<products, browser, launches, pageUrl, prior, parked>>

SendMailResolves ==
  /\ pc = "sendMail"
  /\ NextProduct(<<Line("EmailSent", product.name, <<>>)>>)
  /\ mails' = [mails EXCEPT ![OwnMail].status = "sent"]
  /\ UNCHANGED <<products, browser, launches, pageUrl, fileExists, fileData,
                 prior, thrown, missing,
                 texts, calls, parked>>

\* the rejection of sendMail left to the catch block of the loop body
SendMailRejectsUncaught ==
  /\ pc = "sendMail"
  /\ Catch(<<>>)
  /\ mails' = [mails EXCEPT ![OwnMail].status = "rejected"]
  /\ UNCHANGED <<products, browser, launches, pageUrl, fileExists, fileData,
                 prior, thrown, missing,
                 texts, calls, parked>>

\* a rejected sendMail that takes the product's last entry out of the file
SendMailRejectsRollback ==
  /\ pc = "sendMail"
  /\ NextProduct(<<Line("EmailFailed", product.name, <<>>)>>)
  /\ mails' = [mails EXCEPT ![OwnMail].status = "rejected"]
  /\ fileData' = [k \in 1..Len(fileData) |->
                    IF fileData[k][1] = product.name
                    THEN <<fileData[k][1],
                           SubSeq(fileData[k][2], 1, Len(fileData[k][2]) - 1)>>
                    ELSE fileData[k]]
  /\ UNCHANGED <<products, browser, launches, pageUrl, fileExists,
                 prior, thrown, missing,
                 texts, calls, parked>>

\* sendPriceAlert catches the rejection and logs it
SendMailRejects ==
  /\ pc = "sendMail"
  /\ NextProduct(<<Line("EmailFailed", product.name, <<>>)>>)
  /\ mails' = [mails EXCEPT ![OwnMail].status = "rejected"]
  /\ UNCHANGED <<products, browser, launches, pageUrl, fileExists, fileData,
                 prior, thrown, missing,
                 texts, calls, parked>>

CloseResolves ==
  /\ pc = "close"
  /\ browser' = "closed"
  /\ pc' = "done"
  /\ UNCHANGED <<products, idx, launches, closeCalls, pageUrl, whole,
                 fileExists, fileData, console, mails, prior, thrown, missing,
                 texts, calls, parked>>

CloseRejects ==
  /\ pc = "close"
  /\ pc' = "rejected"
  /\ UNCHANGED <<products, idx, browser, launches, closeCalls, pageUrl, whole,
                 fileExists, fileData, console, mails, prior, thrown, missing,
                 texts, calls, parked>>

Next ==
  \/ LaunchResolves
  \/ LaunchRejects
  \/ NewPageResolves
  \/ NewPageRejects
  \/ GotoResolves
  \/ GotoRejects
  \/ WaitForSelectorResolves
  \/ WaitForSelectorRejects
  \/ TextWholeResolves
  \/ TextWholeRejects
  \/ TextFractionResolves
  \/ TextFractionRejects
  \/ SendMailResolves
  \/ SendMailRejects
  \/ CloseResolves
  \/ CloseRejects

Spec == Init /\ [][Next]_vars

\* a first run: no history file yet
FirstRunInit == Init /\ ~prior.exists

\* every awaited call settles: the run is resumed whenever it can be
LiveSpec == FirstRunInit /\ [][Next]_vars /\ WF_vars(Next)

\* ---------------------------------------------- two calls in one process
\* what this call keeps across an await
Context ==
  [pc |-> pc, idx |-> idx, browser |-> browser, launches |-> launches,
   closeCalls |-> closeCalls, pageUrl |-> pageUrl, whole |-> whole,
   mail |-> IF pc = "sendMail" THEN OwnMail ELSE 0]

\* While this call waits at its await the event loop resumes the other call:
\* the two change places. The file, the console and the mails are the
\* process's and stay as they are.
Switch ==
  /\ parked.pc \notin {"none", "done", "rejected"}
  /\ pc' = parked.pc
  /\ idx' = parked.idx
  /\ browser' = parked.browser
  /\ launches' = parked.launches
  /\ closeCalls' = parked.closeCalls
  /\ pageUrl' = parked.pageUrl
  /\ whole' = parked.whole
  /\ parked' = Context
  /\ UNCHANGED <<products, fileExists, fileData, console, mails, prior,
                 thrown, missing, texts, calls>>

\* the pages of the two calls: a whole text or none, no fraction, one clock
\* value
TwoRunsInputs ==
  /\ whole' \in {Null, <<"4">>}
  /\ Len(texts') > Len(texts) => texts'[Len(texts')].fraction = Null
  /\ (Len(calls') > Len(calls) /\ calls'[Len(calls')].saved) =>
       LET c == calls'[Len(calls')]
       IN  c.written.at[c.name][Len(c.written.at[c.name])].timestamp
             = toISOString(1)

\* checkPrices() is called twice before either call is resumed; the first
\* product has a targetPrice and the file holds the entries of earlier runs
TwoRunsInit ==
  /\ parked = Started
  /\ products = [i \in 1..Len(ProductNames) |-> ProductOf(i, i = 1)]
  /\ prior = [exists |-> TRUE,
              data   |-> << <<"A", <<Entry(1, <<"5", ".", "0">>)>> >> >>]
  /\ fileExists = prior.exists
  /\ fileData = prior.data
  /\ pc = "launch"
  /\ idx = 0
  /\ browser = "none"
  /\ launches = 0
  /\ closeCalls = 0
  /\ pageUrl = <<"about:blank">>
  /\ whole = Null
  /\ console = <<>>
  /\ mails = <<>>
  /\ thrown = {}
  /\ missing = {}
  /\ texts = <<>>
  /\ calls = <<>>

TwoRunsNext ==
  \/ LaunchResolves /\ TwoRunsInputs
  \/ LaunchRejects /\ TwoRunsInputs
  \/ NewPageResolves /\ TwoRunsInputs
  \/ NewPageRejects /\ TwoRunsInputs
  \/ GotoResolves /\ TwoRunsInputs
  \/ GotoRejects /\ TwoRunsInputs
  \/ WaitForSelectorResolves /\ TwoRunsInputs
  \/ WaitForSelectorRejects /\ TwoRunsInputs
  \/ TextWholeResolves /\ TwoRunsInputs
  \/ TextWholeRejects /\ TwoRunsInputs
  \/ TextFractionResolves /\ TwoRunsInputs
  \/ TextFractionRejects /\ TwoRunsInputs
  \/ SendMailResolves /\ TwoRunsInputs
  \/ SendMailRejects /\ TwoRunsInputs
  \/ CloseResolves /\ TwoRunsInputs
  \/ CloseRejects /\ TwoRunsInputs
  \/ Switch

TwoRunsSpec == TwoRunsInit /\ [][TwoRunsNext]_vars

\* ------------------------------------------------------------- observations
\* the entries a history file text holds for a product name
HistoryOf(data, name) ==
  IF \E i \in 1..Len(data) : data[i][1] = name
  THEN data[CHOOSE i \in 1..Len(data) : data[i][1] = name][2]
  ELSE <<>>

Persisted(name) == HistoryOf(fileData, name)

Before(name) == HistoryOf(prior.data, name)

Gained(name) == Len(Persisted(name)) - Len(Before(name))

KeysOf(data) == {data[i][1] : i \in 1..Len(data)}

IsPrefix(s, t) == Len(s) <= Len(t) /\ SubSeq(t, 1, Len(s)) = s

LinesOf(kind, name) ==
  {i \in 1..Len(console) : console[i].kind = kind /\ console[i].name = name}

HasLine(kind, name) == LinesOf(kind, name) # {}

MailsFor(name) == {i \in 1..Len(mails) : mails[i].name = name}

NameOf(j) == products[j].name

\* the names of the products the loop has called page.goto for, in order
Attempted ==
  LET at == SelectSeq(console, LAMBDA l : l.kind = "Checking")
  IN  [i \in 1..Len(at) |-> at[i].name]

\* the loop has been left
LoopOver == closeCalls > 0

\* both texts of product j were read: its price was built and shown
Fetched(j) == HasLine("Price", NameOf(j))

\* the text shown as the price of product j
ShownPrice(j) == console[CHOOSE i \in LinesOf("Price", NameOf(j)) : TRUE].text

\* product j was fetched and logPrice returned for it
Recorded(j) == Fetched(j) /\ NameOf(j) \notin thrown

\* s is one or more digits, a ".", and one or more digits
IsDecimal(s) ==
  \E k \in 2..(Len(s) - 1) :
    /\ s[k] = "."
    /\ \A i \in 1..Len(s) : i # k => IsDigit(s[i])

\* ------------------------------------------------------------- claims
\* C1: every product is attempted exactly once and in the order given,
\* whatever failed before it, and a product whose own fetch and recording
\* steps succeed is recorded in the history whichever earlier products failed.
C1_FailureIsolation ==
  /\ Attempted = [i \in 1..idx |-> NameOf(i)]
  /\ LoopOver => idx = Len(products)
  /\ \A j \in 1..idx :
       Recorded(j) =>
         /\ Gained(NameOf(j)) = 1
         /\ Persisted(NameOf(j))[Len(Persisted(NameOf(j)))].price = ShownPrice(j)

C1_Witness ==
  /\ pc = "done"
  /\ HasLine("Failed", "A")
  /\ ~Fetched(1)
  /\ Recorded(2)
  /\ Gained("B") = 1

\* C2 (as claimed): once logPrice has thrown for a product, the run has ended
\* with the error propagated to the caller.
C2_PersistenceFatal == thrown # {} => pc = "rejected"

Observed(j) == parseFloat(ReplaceAll(ShownPrice(j), ","))

\* C4: a mail is sent for a product exactly when its price was recorded, it has
\* a targetPrice and the observed number is at most the targetPrice.
C4_ThresholdRule ==
  \A j \in 1..Len(products) :
    MailsFor(NameOf(j)) # {}
      <=> /\ j <= idx
          /\ Recorded(j)
          /\ "targetPrice" \in DOMAIN products[j]
          /\ Observed(j) # NaN
          /\ Observed(j)[1] <= products[j].targetPrice[1]

C4_Witness ==
  /\ pc = "done"
  /\ "targetPrice" \in DOMAIN products[1]
  /\ \E i \in MailsFor("A") : mails[i].price = products[1].targetPrice
  /\ "targetPrice" \notin DOMAIN products[2]
  /\ Recorded(2)
  /\ Observed(2) = Num(4)
  /\ MailsFor("B") = {}

\* C5: in every step the entries persisted for each product name stay as a
\* prefix of the entries persisted after the step.
C5_AppendOnly ==
  [][\A name \in KeysOf(fileData) \cup KeysOf(fileData') :
       IsPrefix(Persisted(name), Persisted(name)')]_vars

C5_Witness ==
  /\ Len(Before("A")) = 2
  /\ Len(Persisted("A")) = 3
  /\ Len(Persisted("B")) = 1
  /\ Persisted("Z") = Before("Z")
  /\ Persisted("Z") # <<>>

\* C6 (as claimed): a run that launched the browser and has ended has called
\* browser.close() exactly once, and launched it exactly once.
C6_BrowserClosed ==
  (pc \in {"done", "rejected"} /\ launches > 0)
    => (launches = 1 /\ closeCalls = 1)

\* C7: when sendMail rejects for a product, the failure is logged, the product
\* is not reported as failed, its entry stays recorded, and the loop goes on
\* to the next product (or to browser.close() after the last one).
C7_NotifierNonFatal ==
  \A j \in 1..Len(products) :
    (\E i \in MailsFor(NameOf(j)) : mails[i].status = "rejected")
      => /\ HasLine("EmailFailed", NameOf(j))
         /\ ~HasLine("Failed", NameOf(j))
         /\ Gained(NameOf(j)) = 1
         /\ IF j < Len(products) THEN HasLine("Checking", NameOf(j + 1))
            ELSE LoopOver

C7_Witness ==
  /\ pc = "done"
  /\ \E i \in MailsFor("A") : mails[i].status = "rejected"
  /\ Recorded(2)
  /\ Gained("B") = 1

\* C8 (as claimed): a product whose page gave neither a whole nor a fraction
\* text is reported as failed, gains no entry and has no mail sent.
C8_MissingFragmentFails ==
  \A j \in 1..Len(products) :
    NameOf(j) \in missing
      => /\ HasLine("Failed", NameOf(j))
         /\ Gained(NameOf(j)) = 0
         /\ MailsFor(NameOf(j)) = {}

\* the effect of a run on product j: one entry gained, its price the shown
\* price string; and when the target is met, one mail with the product's
\* name, the number of the stored string and the targetPrice
RunEffect(j) ==
  LET name   == NameOf(j)
      last   == Persisted(name)[Len(Persisted(name))]
      number == parseFloat(ReplaceAll(last.price, ","))
  IN  /\ Gained(name) = 1
      /\ last.price = ShownPrice(j)
      /\ ("targetPrice" \in DOMAIN products[j]
            /\ NumLeq(number, products[j].targetPrice))
           => /\ Cardinality(MailsFor(name)) = 1
              /\ \A i \in MailsFor(name) :
                   /\ mails[i].price = number
                   /\ mails[i].targetPrice = products[j].targetPrice

C10_PriceFormat ==
  \A name \in KeysOf(fileData) :
    \A i \in 1..Len(Persisted(name)) : IsDecimal(Persisted(name)[i].price)

\* the price shown for the product whose reads are texts[i]
ShownFor(i) ==
  console[CHOOSE k \in LinesOf("Price", texts[i].name) : TRUE].text

\* the price string as C11 words it: "0" only for an absent part
ClaimedPrice(w, f) ==
  (IF w = Null THEN <<"0">> ELSE SelectSeq(w, LAMBDA c : c # "."))
    \o <<".">> \o (IF f = Null THEN <<"0">> ELSE f)

\* the same with "0" for an absent or empty part
DefaultedPrice(w, f) ==
  (IF w = Null \/ w = <<>> THEN <<"0">> ELSE SelectSeq(w, LAMBDA c : c # "."))
    \o <<".">> \o (IF f = Null \/ f = <<>> THEN <<"0">> ELSE f)

\* C11 (as claimed): the price string is the whole part without its dots, or
\* "0" when the whole part is absent, then ".", then the fraction part
\* unchanged, or "0" when it is absent.
C11_Original ==
  \A i \in 1..Len(texts) :
    ShownFor(i) = ClaimedPrice(texts[i].whole, texts[i].fraction)

\* C11 (amended): the price string is the whole part without its dots, or "0"
\* when the whole part is absent or empty, then ".", then the fraction part
\* unchanged, or "0" when it is absent or empty; ("1.234", "99") gives
\* "1234.99" and (absent, absent) gives "0.0".
C11_PriceConstruction ==
  /\ \A i \in 1..Len(texts) :
       ShownFor(i) = DefaultedPrice(texts[i].whole, texts[i].fraction)
  /\ priceString(<<"1", ".", "2", "3", "4">>, <<"9", "9">>)
       = <<"1", "2", "3", "4", ".", "9", "9">>
  /\ priceString(Null, Null) = <<"0", ".", "0">>

C11_Witness ==
  /\ Len(texts) = 2
  /\ texts[1].whole = <<"1", ".", "5">>
  /\ ShownFor(1) = <<"1", "5", ".", "5", "0">>
  /\ texts[2].whole = <<>>
  /\ texts[2].fraction = Null
  /\ ShownFor(2) = <<"0", ".", "0">>

\* the logPrice calls before the k-th in which savePriceHistory returned
SavedBefore(k) == {i \in 1..(k - 1) : calls[i].saved}

Latest(S) == CHOOSE i \in S : \A m \in S : m <= i

Creations == {k \in 1..Len(calls) : calls[k].created}

\* the logPrice calls before the k-th in which loadPriceHistory returned
LoadedBefore(k) == {i \in 1..(k - 1) : calls[i].loaded}

\* what C13 says of the loads made so far
LoadsIdempotent ==
  /\ Cardinality(Creations) <= 1
  /\ prior.exists => Creations = {}
  /\ ~prior.exists =>
       \A k \in 1..Len(calls) :
         (calls[k].loaded /\ SavedBefore(k) = {})
           => /\ calls[k].history = EmptyObject
              /\ calls[k].created <=> LoadedBefore(k) = {}

\* this step is a logPrice call in which loadPriceHistory returned and
\* savePriceHistory did not
LoadOnlyStep ==
  /\ Len(calls') = Len(calls) + 1
  /\ calls'[Len(calls')].loaded
  /\ ~calls'[Len(calls')].saved

\* C13: with no file and no save in between, every load returns the empty
\* ledger and only the first creates the file; a load of an existing file
\* leaves its text as it was, and a load that creates it writes {}.
C13_IdempotentLoad ==
  [][/\ LoadsIdempotent'
     /\ LoadOnlyStep =>
          /\ fileExists'
          /\ fileData' = IF fileExists THEN fileData
                         ELSE JSONStringify(EmptyObject)]_vars

C13_Witness ==
  /\ ~prior.exists
  /\ Len(calls) = 2
  /\ calls[1].loaded /\ ~calls[1].saved /\ calls[1].created
  /\ calls[2].loaded /\ ~calls[2].saved /\ ~calls[2].created
  /\ calls[1].history = calls[2].history
  /\ calls[2].history = EmptyObject
  /\ fileExists
  /\ fileData = <<>>

\* the products reported with a price or a failure, in the order of the report
Outcomes ==
  LET out == SelectSeq(console, LAMBDA l : l.kind \in {"Price", "Failed"})
  IN  [i \in 1..Len(out) |-> out[i].name]

\* C14 (as claimed): once the loop is over, every product has been reported
\* with exactly one outcome, a price or a failure, in input order.
C14_OneOutcome ==
  LoopOver =>
    /\ Outcomes = [j \in 1..Len(products) |-> NameOf(j)]
    /\ \A j \in 1..Len(products) : Fetched(j) # HasLine("Failed", NameOf(j))

\* the number of the last price persisted for a name
LastNumber(name) ==
  parseFloat(ReplaceAll(Persisted(name)[Len(Persisted(name))].price, ","))

\* C15: whenever sendMail has been called for a product, the product's texts
\* were read, its price was built from them and logPrice has returned for
\* it, so its entry of this run is in the history file; a product for which
\* logPrice threw has no mail.
C15_RecordBeforeNotify ==
  /\ \A i \in 1..Len(mails) :
       /\ \E t \in 1..Len(texts) : texts[t].name = mails[i].name
       /\ \E k \in 1..Len(calls) :
            calls[k].name = mails[i].name /\ calls[k].saved
       /\ Gained(mails[i].name) = 1
       /\ LastNumber(mails[i].name) = mails[i].price
  /\ \A name \in thrown : MailsFor(name) = {}
  /\ \A k \in 1..Len(calls) :
       \E t \in 1..Len(texts) :
         /\ texts[t].name = calls[k].name
         /\ calls[k].saved =>
              calls[k].written.at[calls[k].name]
                  [Len(calls[k].written.at[calls[k].name])].price
                = priceString(texts[t].whole, texts[t].fraction)

C15_Witness ==
  /\ pc = "sendMail"
  /\ idx = 2
  /\ mails[Len(mails)].status = "pending"
  /\ mails[Len(mails)].name = "B"
  /\ Gained("B") = 1
  /\ "A" \in thrown
  /\ "targetPrice" \in DOMAIN products[1]
  /\ NumLeq(Observed(1), products[1].targetPrice)
  /\ MailsFor("A") = {}

\* C16: the step that settles sendMail, resolved or rejected, leaves the
\* history file as it was when sendMail was called.
C16_LedgerUntouched ==
  [][pc = "sendMail" => fileData' = fileData /\ fileExists' = fileExists]_vars

C16_Witness ==
  /\ pc = "close"
  /\ Len(mails) = 2
  /\ mails[1].status = "sent"
  /\ mails[2].status = "rejected"
  /\ Gained(mails[1].name) = 1
  /\ Gained(mails[2].name) = 1
  /\ LastNumber(mails[2].name) = mails[2].price

\* C17 (as claimed): in one run loadPriceHistory returns at most once and
\* savePriceHistory returns at most once.
C17_Original ==
  /\ Cardinality({k \in 1..Len(calls) : calls[k].loaded}) <= 1
  /\ Cardinality({k \in 1..Len(calls) : calls[k].saved}) <= 1

\* this step is a logPrice call
LogPriceStep == Len(calls') = Len(calls) + 1

\* C17 (amended): logPrice is called once for each product whose texts were
\* read; each call loads the file as it is at that moment, and when its save
\* returns the file holds the loaded object with that product's entry
\* appended; no other step reads or writes the file.
C17_LoadSavePerProduct ==
  [][/\ LogPriceStep =>
          LET c == calls'[Len(calls')]
          IN  /\ Len(calls') = Len(texts')
              /\ c.name = texts'[Len(texts')].name
              /\ c.loaded =>
                   /\ c.history = loadPriceHistory(fileExists, fileData)
                   /\ fileExists'
              /\ c.saved =>
                   /\ c.loaded
                   /\ c.name \in DOMAIN c.written.at
                   /\ c.written
                        = Push(c.history, c.name,
                               c.written.at[c.name]
                                 [Len(c.written.at[c.name])])
                   /\ fileData' = savePriceHistory(c.written)
              /\ (c.loaded /\ ~c.saved) =>
                   fileData' = FileAfterLoad(fileExists, fileData)
              /\ ~c.loaded =>
                   fileData' = fileData /\ fileExists' = fileExists
     /\ ~LogPriceStep => fileData' = fileData /\ fileExists' = fileExists]_vars

C17_Witness ==
  /\ pc = "done"
  /\ Len(calls) = 2
  /\ calls[1].loaded /\ calls[1].saved /\ calls[1].created
  /\ calls[2].loaded /\ calls[2].saved /\ ~calls[2].created
  /\ DOMAIN calls[1].written.at = {"A"}
  /\ calls[2].history = calls[1].written
  /\ fileData = savePriceHistory(calls[2].written)

\* product j was recorded or reported as failed
Terminal(j) == Recorded(j) \/ HasLine("Failed", NameOf(j))

\* the run has returned or rejected
RunEnded == pc \in {"done", "rejected"}

\* the loop body has been entered
LoopEntered == Len(Attempted) > 0

\* C18: when every awaited call settles, every run ends; a run that entered
\* the loop ends with the loop left and every product recorded or reported
\* as failed; a selector wait gives way either to the reading of the
\* product's texts or to the product being reported as failed and the loop
\* going on.
C18_Termination ==
  /\ <>RunEnded
  /\ []((RunEnded /\ LoopEntered) =>
          (LoopOver /\ \A j \in 1..Len(products) : Terminal(j)))
  /\ [][pc = "waitForSelector" =>
          \/ pc' = "textWhole" /\ idx' = idx
          \/ /\ ~HasLine("Failed", NameOf(idx))
             /\ \E i \in 1..Len(console') :
                  /\ console'[i].kind = "Failed"
                  /\ console'[i].name = NameOf(idx)
             /\ \/ pc' = "goto" /\ idx' = idx + 1
                \/ pc' = "close" /\ idx = Len(products)]_vars

C18_Witness ==
  /\ pc = "done"
  /\ HasLine("Failed", "A")
  /\ "A" \notin thrown
  /\ \A t \in 1..Len(texts) : texts[t].name # "A"
  /\ Recorded(2)
  /\ \A j \in 1..Len(products) : Terminal(j)

\* timestamp a is not later than timestamp b (ISO strings of equal length
\* compare as their fields do)
TsLeq(a, b) == a[1] < b[1] \/ (a[1] = b[1] /\ a[2] <= b[2])

\* C19 (as claimed): in the history file the timestamps of each product's
\* entries never decrease along the array, whatever new Date() returned.
C19_TimestampsOrdered ==
  \A name \in KeysOf(fileData) :
    \A i \in 1..Len(Persisted(name)) :
      \A j \in i..Len(Persisted(name)) :
        TsLeq(Persisted(name)[i].timestamp, Persisted(name)[j].timestamp)

\* the configured selector of the product called name
SelectorOf(name) ==
  products[CHOOSE j \in 1..Len(products) : NameOf(j) = name].selector

\* C20 (as claimed): the text read as a product's price is the text of the
\* element its configured selector names.
C20_OwnLocator ==
  \A t \in 1..Len(texts) : texts[t].selector = SelectorOf(texts[t].name)

\* C21: in the step in which logPrice returns for a product, a mail is
\* handed to sendMail exactly when the product has a targetPrice and the
\* number built from the texts just read is at most it, whatever the file
\* held before; and the file after the step is what logPrice saved.
C21_DecisionPure ==
  [][(LogPriceStep /\ calls'[Len(calls')].saved) =>
       LET t      == texts'[Len(texts')]
           number == parseFloat(ReplaceAll(priceString(t.whole, t.fraction),
                                           ","))
           p      == products[idx]
       IN  /\ (Len(mails') = Len(mails) + 1)
                <=> /\ "targetPrice" \in DOMAIN p
                    /\ number # NaN
                    /\ number[1] <= p.targetPrice[1]
           /\ Len(mails') \in {Len(mails), Len(mails) + 1}
           /\ fileData' = savePriceHistory(calls'[Len(calls')].written)]_vars

C21_Witness ==
  /\ pc = "sendMail"
  /\ idx = 1
  /\ Len(Before("A")) = 2
  /\ Before("A")[2].price = ShownPrice(1)
  /\ NumLeq(parseFloat(Before("A")[1].price), products[1].targetPrice)
  /\ mails[Len(mails)].name = "A"
  /\ mails[Len(mails)].status = "pending"
  /\ Gained("A") = 1

\* the entries the logPrice calls that returned have saved for a name, in
\* the order of the calls
SavedEntries(name) ==
  LET done == SelectSeq(calls, LAMBDA c : c.saved /\ c.name = name)
  IN  [k \in 1..Len(done) |->
         done[k].written.at[name][Len(done[k].written.at[name])]]

\* C22: with two checkPrices calls of one process taking turns at their
\* awaits over the same file, the file holds for every name the entries it
\* held before followed by one entry for each logPrice call that returned
\* for that name, in the order of the calls, and no other key.
C22_NoLostAppends ==
  /\ \A name \in KeysOf(fileData) \cup KeysOf(prior.data)
                   \cup {ProductNames[i] : i \in 1..Len(ProductNames)} :
       Persisted(name) = Before(name) \o SavedEntries(name)
  /\ KeysOf(fileData)
       = KeysOf(prior.data)
           \cup {calls[k].name : k \in SavedBefore(Len(calls) + 1)}

C22_Witness ==
  /\ pc = "done"
  /\ parked.pc = "done"
  /\ Len(calls) = 4
  /\ \A k \in 1..4 : calls[k].saved
  /\ [k \in 1..4 |-> calls[k].name] = <<"A", "A", "B", "B">>
  /\ Gained("A") = 2
  /\ Gained("B") = 2
  /\ SavedEntries("A")[1].price # SavedEntries("A")[2].price
  /\ SavedEntries("B")[1].price # SavedEntries("B")[2].price

\* C23: a step in which logPrice(P, price) returns puts one entry, holding
\* that price, at the end of P's array in the file, adds no key but P and
\* leaves every other key's array, and the order of the keys, as they were.
C23_AppendFrame ==
  [][(LogPriceStep /\ calls'[Len(calls')].saved) =>
       LET P   == calls'[Len(calls')].name
           t   == texts'[Len(texts')]
           old == HistoryOf(fileData, P)
           new == HistoryOf(fileData', P)
       IN  /\ Len(new) = Len(old) + 1
           /\ SubSeq(new, 1, Len(old)) = old
           /\ new[Len(new)].price = priceString(t.whole, t.fraction)
           /\ KeysOf(fileData') = KeysOf(fileData) \cup {P}
           /\ \A name \in KeysOf(fileData) \ {P} :
                HistoryOf(fileData', name) = HistoryOf(fileData, name)
           /\ Len(fileData') = Cardinality(KeysOf(fileData'))
           /\ \A k \in 1..Len(fileData) : fileData'[k][1] = fileData[k][1]]_vars

C23_Witness ==
  /\ pc = "done"
  /\ [k \in 1..Len(fileData) |-> fileData[k][1]] = <<"Z", "A", "B">>
  /\ Len(Before("Z")) = 1
  /\ Persisted("Z") = Before("Z")
  /\ Len(Before("A")) = 2
  /\ Gained("A") = 1
  /\ Before("B") = <<>>
  /\ Gained("B") = 1
  /\ Len(calls) = 2

\* C24: the selector is awaited and each text is read only while the page
\* shows the URL of the product of the current iteration, and the texts are
\* kept under that product's name; a step in which page.goto does not bring
\* the page to the product's URL reads, records and mails nothing and ends
\* the product's iteration.
C24_NoStaleReads ==
  [][/\ pc \in {"waitForSelector", "textWhole", "textFraction"} =>
          pageUrl = products[idx].url
     /\ Len(texts') > Len(texts) =>
          /\ texts'[Len(texts')].name = products[idx].name
          /\ texts'[Len(texts')].whole = whole
          /\ \A t \in 1..Len(texts) : texts[t].name # products[idx].name
     /\ (pc = "goto" /\ pageUrl' # products[idx].url) =>
          /\ texts' = texts
          /\ calls' = calls
          /\ mails' = mails
          /\ fileData' = fileData
          /\ whole' = Null
          /\ \/ pc' = "goto" /\ idx' = idx + 1
             \/ pc' = "close" /\ idx = Len(products)]_vars

C24_Witness ==
  /\ pc = "done"
  /\ Recorded(1)
  /\ Truthy(texts[1].whole)
  /\ pageUrl = products[1].url
  /\ HasLine("Failed", "B")
  /\ "targetPrice" \in DOMAIN products[2]
  /\ Len(texts) = 1
  /\ Len(calls) = 1
  /\ Gained("B") = 0
  /\ MailsFor("B") = {}

====
